---------------------------- MODULE Spec2Model ----------------------------
(***************************************************************************)
(* Model of src/src/main.rs: a cursor that moves under mouse deltas inside *)
(* a triangle and slides along the triangle's segments.                    *)
(*                                                                         *)
(* Numbers.  The program computes in f32.  The model computes in exact     *)
(* rational arithmetic (a rational is a reduced pair <<n, d>>, d > 0), so  *)
(* every property below is a property of the algorithm in exact            *)
(* arithmetic, not of f32 rounding.                                        *)
(*                                                                         *)
(* Geometry.  The program's triangle has the irrational corner             *)
(* coordinates 200*(cos, sin) of 90, 210 and 330 degrees, about (0,200),   *)
(* (-173,-100), (173,-100).  The model keeps the construction and replaces *)
(* the three directions and the radius by rational ones that give the      *)
(* corners (0,3), (-3,-1), (3,-1): the same counter-clockwise orientation, *)
(* the same dominant axis for every segment, the origin strictly inside,   *)
(* all angles acute, and side lengths 5, 6, 5 that are rational, so that   *)
(* the rotation and the projection of the sliding branch stay rational and *)
(* the numbers stay small.                                                 *)
(***************************************************************************)
EXTENDS Integers, Sequences, FiniteSets, TLC

VARIABLES
    cursor,        \* Transform.translation of the GameCursor entity (x, y)
    cursor_state,  \* Game.cursor_state
    played,        \* ids passed to audio.play while the last delta was processed
    prev_cursor,   \* history: cursor before the last delta
    prev_state,    \* history: cursor_state before the last delta
    last_delta,    \* history: the last raw MouseMotion delta
    steps,         \* history: number of deltas processed
    args,          \* the four points of a call of get_intersection, <<>> if none
    result,        \* <<r>> once the call has returned r, <<>> before
    spawned        \* the TriangleSegment components create_triangle spawned

vars ==
    <<cursor, cursor_state, played, prev_cursor, prev_state, last_delta, steps,
      args, result, spawned>>

---------------------------------------------------------------------------
(* Bounds *)

\* number of MouseMotion events processed in one behaviour
MaxSteps == 5

\* largest common denominator of the cursor coordinates from which a delta
\* is processed
MaxDenominator == 100

\* largest coordinate of the points given to get_intersection on its own
MaxCoord == 2

\* finest subdivision of the triangle from which inside points are sampled
MaxSubdivision == 8

\* largest multiple of half a normal at which outside points are sampled
MaxNormalSteps == 4

---------------------------------------------------------------------------
(* Exact rational arithmetic standing for f32 *)

Abs(n) == IF n < 0 THEN -n ELSE n

RECURSIVE GCD(_, _)
GCD(a, b) == IF b = 0 THEN a ELSE GCD(b, a % b)

\* the reduced fraction n / d, d # 0
Rat(n, d) ==
    LET g == GCD(Abs(n), Abs(d))
        s == IF d < 0 THEN -1 ELSE 1
    IN  <<s * (n \div g), (s * d) \div g>>

Zero == <<0, 1>>
One == <<1, 1>>

RAdd(a, b) ==
    LET g == GCD(a[2], b[2])
    IN  Rat(a[1] * (b[2] \div g) + b[1] * (a[2] \div g), (a[2] \div g) * b[2])

RNeg(a) == <<-a[1], a[2]>>

RSub(a, b) == RAdd(a, RNeg(b))

RMul(a, b) ==
    LET g1 == GCD(Abs(a[1]), b[2])
        g2 == GCD(Abs(b[1]), a[2])
    IN  <<(a[1] \div g1) * (b[1] \div g2), (a[2] \div g2) * (b[2] \div g1)>>

\* a / b, b # 0
RDiv(a, b) ==
    IF b[1] < 0 THEN RMul(a, <<-b[2], -b[1]>>) ELSE RMul(a, <<b[2], b[1]>>)

RSign(a) == IF a[1] > 0 THEN 1 ELSE IF a[1] < 0 THEN -1 ELSE 0

RLt(a, b) == RSign(RSub(a, b)) < 0

RAbs(a) == <<Abs(a[1]), a[2]>>

\* f32::signum: 1.0 for +0.0 and positive numbers, -1.0 for negative ones
signum(a) == IF a[1] < 0 THEN RNeg(One) ELSE One

\* sqrt of a rational that is the square of a rational
RECURSIVE ISqrtFrom(_, _)
ISqrtFrom(n, k) == IF k * k >= n THEN k ELSE ISqrtFrom(n, k + 1)

sqrt(a) == <<ISqrtFrom(a[1], 0), ISqrtFrom(a[2], 0)>>

---------------------------------------------------------------------------
(* Vec2 *)

Vec2(x, y) == [x |-> x, y |-> y]

vec2(x, y) == Vec2(x, y)

\* a Vec2 with integer coordinates
IVec(x, y) == Vec2(<<x, 1>>, <<y, 1>>)

VAdd(a, b) == Vec2(RAdd(a.x, b.x), RAdd(a.y, b.y))

VSub(a, b) == Vec2(RSub(a.x, b.x), RSub(a.y, b.y))

VScale(a, k) == Vec2(RMul(a.x, k), RMul(a.y, k))

dot(a, b) == RAdd(RMul(a.x, b.x), RMul(a.y, b.y))

perp_dot(a, b) == RSub(RMul(a.x, b.y), RMul(a.y, b.x))

\* impl Cross for Vec2
cross(a, b) == RSub(RMul(a.x, b.y), RMul(a.y, b.x))

length_squared(a) == dot(a, a)

\* glam Vec2::distance(a, b) = sqrt(length_squared(a - b)).  The program only
\* compares distances; sqrt is strictly increasing, so the comparison of two
\* distances is the comparison of their squares.
distance_squared(a, b) == length_squared(VSub(a, b))

distance_lt(a1, a2, b1, b2) == RLt(distance_squared(a1, a2), distance_squared(b1, b2))

\* glam Vec2::from_angle(axis.angle_between(to)) for a unit axis: the unit
\* vector (cos, sin) of the signed angle from axis to `to`, where
\* cos = dot / (|axis| |to|) and sin has the sign of perp_dot
from_angle_between(axis, to) ==
    LET len == sqrt(length_squared(to))
    IN  Vec2(RDiv(dot(axis, to), len), RDiv(perp_dot(axis, to), len))

\* glam Vec2::rotate: the complex product of the two vectors
rotate(v, r) ==
    Vec2(RSub(RMul(v.x, r.x), RMul(v.y, r.y)), RAdd(RMul(v.y, r.x), RMul(v.x, r.y)))

\* glam Vec2::project_onto
project_onto(v, onto) == VScale(onto, RDiv(dot(v, onto), dot(onto, onto)))

---------------------------------------------------------------------------
(* create_triangle *)

\* stands for (cos, sin) of i * 2 PI / 3 + PI / 2 for i = 0, 1, 2: up, down
\* left, down right, with rational coordinates
cos_sin ==
    << Vec2(Zero, One), Vec2(Rat(-1, 1), Rat(-1, 3)), Vec2(Rat(1, 1), Rat(-1, 3)) >>

\* stand for the radii 200. and 250. (ratio 4 : 5)
InnerRadius == Rat(3, 1)
OuterRadius == Rat(15, 4)

\* the six points: for each angle the inner point, then the outer point
points ==
    [k \in 1..6 |->
        IF k % 2 = 1 THEN VScale(cos_sin[(k + 1) \div 2], InnerRadius)
                     ELSE VScale(cos_sin[k \div 2], OuterRadius)]

\* [0, 1, 2, 3, 4, 5, 0, 1].map(|i| points[i])
cyclic == [k \in 1..8 |-> points[((k - 1) % 6) + 1]]

\* as windows, stepped by 1
windows_step_one == [i \in 1..3 |-> SubSeq(cyclic, i, i + 3)]

\* .windows(4).step_by(2).zip(three colours).enumerate(): window i starts at
\* element 2 i of the cyclic sequence
windows == [i \in 1..3 |-> SubSeq(cyclic, 2 * (i - 1) + 1, 2 * (i - 1) + 4)]

\* as TriangleSegment, from the 3rd point of the window to the 1st
TriangleSegment_reversed(i, wind) ==
    LET start == wind[3]
        end == wind[1]
        between == VSub(end, start)
    IN  [id |-> i, start |-> start, end |-> end, between |-> between,
         normal |-> Vec2(between.y, RNeg(between.x))]

TriangleSegment(i, wind) ==
    LET start == wind[1]
        end == wind[3]
        between == VSub(end, start)
    IN  [id |-> i, start |-> start, end |-> end, between |-> between,
         normal |-> Vec2(between.y, RNeg(between.x))]

\* as triangle_segments, with the ids counted from 1
triangle_segments_from_one == [i \in 1..3 |-> TriangleSegment(i, windows[i])]

\* the TriangleSegment components in spawn order, which is the order in which
\* Query<&TriangleSegment> iterates
triangle_segments == [i \in 1..3 |-> TriangleSegment(i - 1, windows[i])]

---------------------------------------------------------------------------
(* CursorState *)

Unlocked == [kind |-> "Unlocked"]

Sliding(id) == [kind |-> "Sliding", id |-> id]

---------------------------------------------------------------------------
(* get_intersection *)

None == [some |-> FALSE]

Some(v) == [some |-> TRUE, v |-> v]

\* as get_intersection, with the two products of xnumerator added
get_intersection_xsum(p1, p2, p3, p4) ==
    LET yd12 == RSub(p1.y, p2.y)
        yd34 == RSub(p3.y, p4.y)
        xd12 == RSub(p1.x, p2.x)
        xd34 == RSub(p3.x, p4.x)
        denominator == RSub(RMul(xd12, yd34), RMul(yd12, xd34))
        det12 == RSub(RMul(p1.x, p2.y), RMul(p1.y, p2.x))
        det34 == RSub(RMul(p3.x, p4.y), RMul(p3.y, p4.x))
        xnumerator == RAdd(RMul(det12, xd34), RMul(xd12, det34))
        ynumerator == RSub(RMul(det12, yd34), RMul(yd12, det34))
    IN  IF denominator = Zero
        THEN None
        ELSE Some(Vec2(RDiv(xnumerator, denominator), RDiv(ynumerator, denominator)))

\* as get_intersection, testing only the first product of the denominator
get_intersection_half_test(p1, p2, p3, p4) ==
    LET yd12 == RSub(p1.y, p2.y)
        yd34 == RSub(p3.y, p4.y)
        xd12 == RSub(p1.x, p2.x)
        xd34 == RSub(p3.x, p4.x)
        denominator == RSub(RMul(xd12, yd34), RMul(yd12, xd34))
        det12 == RSub(RMul(p1.x, p2.y), RMul(p1.y, p2.x))
        det34 == RSub(RMul(p3.x, p4.y), RMul(p3.y, p4.x))
        xnumerator == RSub(RMul(det12, xd34), RMul(xd12, det34))
        ynumerator == RSub(RMul(det12, yd34), RMul(yd12, det34))
    IN  IF RMul(xd12, yd34) = Zero
        THEN None
        ELSE Some(Vec2(RDiv(xnumerator, denominator), RDiv(ynumerator, denominator)))

get_intersection(p1, p2, p3, p4) ==
    LET yd12 == RSub(p1.y, p2.y)
        yd34 == RSub(p3.y, p4.y)
        xd12 == RSub(p1.x, p2.x)
        xd34 == RSub(p3.x, p4.x)
        denominator == RSub(RMul(xd12, yd34), RMul(yd12, xd34))
        det12 == RSub(RMul(p1.x, p2.y), RMul(p1.y, p2.x))
        det34 == RSub(RMul(p3.x, p4.y), RMul(p3.y, p4.x))
        xnumerator == RSub(RMul(det12, xd34), RMul(xd12, det34))
        ynumerator == RSub(RMul(det12, yd34), RMul(yd12, det34))
    IN  IF denominator = Zero
        THEN None
        ELSE Some(Vec2(RDiv(xnumerator, denominator), RDiv(ynumerator, denominator)))

---------------------------------------------------------------------------
(* move_cursor *)

\* the result of processing one delta: the committed position, the state
\* and the ids played
Outcome(pos, state, ids) == [pos |-> pos, state |-> state, played |-> ids]

\* (future_pos - *start).cross(between) > 0.
past_segment(future_pos, seg) ==
    RSign(cross(VSub(future_pos, seg.start), seg.between)) > 0

\* as crossing, without the snap onto the intersection point
crossing_no_snap(cur, future_pos, seg) ==
    LET fp == get_intersection(cur, future_pos, seg.start, seg.end)
    IN  IF fp.some
        THEN Outcome(future_pos, Sliding(seg.id), <<seg.id>>)
        ELSE Outcome(future_pos, Unlocked, <<>>)

\* the body of the `if` of the Unlocked branch: the cursor is past seg
crossing(cur, future_pos, seg) ==
    LET fp == get_intersection(cur, future_pos, seg.start, seg.end)
    IN  IF fp.some
        THEN Outcome(fp.v, Sliding(seg.id), <<seg.id>>)
        ELSE Outcome(future_pos, Unlocked, <<>>)

\* as scan_segments, going on to the next segment when there is no
\* intersection
RECURSIVE scan_segments_retry(_, _, _)
scan_segments_retry(i, cur, future_pos) ==
    IF i > Len(triangle_segments)
    THEN Outcome(future_pos, Unlocked, <<>>)
    ELSE IF /\ past_segment(future_pos, triangle_segments[i])
            /\ crossing(cur, future_pos, triangle_segments[i]).state # Unlocked
         THEN crossing(cur, future_pos, triangle_segments[i])
         ELSE scan_segments_retry(i + 1, cur, future_pos)

\* the for loop of the Unlocked branch, from the i-th segment on
RECURSIVE scan_segments(_, _, _)
scan_segments(i, cur, future_pos) ==
    IF i > Len(triangle_segments)
    THEN Outcome(future_pos, Unlocked, <<>>)
    ELSE IF past_segment(future_pos, triangle_segments[i])
         THEN crossing(cur, future_pos, triangle_segments[i])
         ELSE scan_segments(i + 1, cur, future_pos)

\* as exit_test, releasing also on the line itself (<= for <)
exit_test_inclusive(cur, delta, seg) ==
    RSign(cross(VSub(VAdd(cur, delta), seg.start), seg.between)) <= 0

\* as exit_test, without the delta
exit_test_no_delta(cur, delta, seg) ==
    RSign(cross(VSub(cur, seg.start), seg.between)) < 0

\* (cursor + delta - *start).cross(between) < 0.
exit_test(cur, delta, seg) ==
    RSign(cross(VSub(VAdd(cur, delta), seg.start), seg.between)) < 0

slide_axis(between) ==
    IF RLt(RAbs(between.x), RAbs(between.y))
    THEN vec2(Zero, signum(between.y))
    ELSE vec2(signum(between.x), Zero)

\* delta.rotate(Vec2::from_angle(angle)).project_onto(*between) + cursor
slide_pos(cur, delta, seg) ==
    LET axis == slide_axis(seg.between)
        rot == from_angle_between(axis, seg.between)
    IN  VAdd(project_onto(rotate(delta, rot), seg.between), cur)

\* as clamp_ends, without the clamping to start
clamp_ends_end_only(future_pos, seg) ==
    IF distance_lt(seg.start, seg.end, future_pos, seg.start)
    THEN seg.end
    ELSE future_pos

\* the endpoint clamping of the Sliding branch
clamp_ends(future_pos, seg) ==
    IF distance_lt(seg.start, seg.end, future_pos, seg.start)
    THEN seg.end
    ELSE IF distance_lt(seg.start, seg.end, future_pos, seg.end)
         THEN seg.start
         ELSE future_pos

\* as slide, moving on to the next segment when clamped to end
slide_to_next(id, cur, delta, future_pos, seg) ==
    IF exit_test(cur, delta, seg)
    THEN Outcome(future_pos, Unlocked, <<>>)
    ELSE IF clamp_ends(slide_pos(cur, delta, seg), seg) = seg.end
         THEN Outcome(seg.end, Sliding((id + 1) % 3), <<>>)
         ELSE Outcome(clamp_ends(slide_pos(cur, delta, seg), seg), Sliding(id), <<>>)

\* the release test, the projection and the clamping of the Sliding branch
slide(id, cur, delta, future_pos, seg) ==
    IF exit_test(cur, delta, seg)
    THEN Outcome(future_pos, Unlocked, <<>>)
    ELSE Outcome(clamp_ends(slide_pos(cur, delta, seg), seg), Sliding(id), <<>>)

\* as sliding, playing the segment's sound on every delta
sliding_plays(id, cur, delta, future_pos) ==
    IF id + 1 \in DOMAIN triangle_segments
    THEN LET out == slide(id, cur, delta, future_pos, triangle_segments[id + 1])
         IN  Outcome(out.pos, out.state, <<id>>)
    ELSE Outcome(future_pos, Sliding(id), <<>>)

\* the Sliding(id) branch; triangle_segments.iter().nth(id) is None for an id
\* past the last segment, and then future_pos stays cursor + delta
sliding(id, cur, delta, future_pos) ==
    IF id + 1 \in DOMAIN triangle_segments
    THEN slide(id, cur, delta, future_pos, triangle_segments[id + 1])
    ELSE Outcome(future_pos, Sliding(id), <<>>)

\* as flip, without the change of sign
flip_none(raw) == Vec2(raw.x, raw.y)

\* delta.y = -delta.y
flip(raw) == Vec2(raw.x, RNeg(raw.y))

\* one iteration of the loop over the MouseMotion events
process_delta(c, state, raw) ==
    LET delta == flip(raw)
        future_pos == VAdd(c, delta)
    IN  IF state.kind = "Unlocked"
        THEN scan_segments(1, c, future_pos)
        ELSE sliding(state.id, c, delta, future_pos)

\* the raw MouseMotion deltas fed to the program
Deltas ==
    { IVec(0, 0), IVec(1, 0), IVec(-1, 0), IVec(0, 1), IVec(0, -1),
      IVec(0, 2), IVec(3, 0), IVec(-7, 0), IVec(-7, 4) }

\* create_cursor spawns the cursor at the origin; Game::default() is Unlocked
Init ==
    /\ cursor = IVec(0, 0)
    /\ cursor_state = Unlocked
    /\ played = <<>>
    /\ prev_cursor = IVec(0, 0)
    /\ prev_state = Unlocked
    /\ last_delta = IVec(0, 0)
    /\ steps = 0
    /\ args = <<>>
    /\ result = <<>>
    /\ spawned = triangle_segments

\* positions whose coordinates have a small common denominator
precise(v) == (v.x[2] \div GCD(v.x[2], v.y[2])) * v.y[2] <= MaxDenominator

move_cursor(raw) ==
    /\ steps < MaxSteps
    /\ precise(cursor)
    /\ LET out == process_delta(cursor, cursor_state, raw)
       IN  /\ cursor' = out.pos
           /\ cursor_state' = out.state
           /\ played' = out.played
    /\ prev_cursor' = cursor
    /\ prev_state' = cursor_state
    /\ last_delta' = raw
    /\ steps' = steps + 1
    /\ UNCHANGED <<args, result, spawned>>

Next == \E raw \in Deltas : move_cursor(raw)

Spec == Init /\ [][Next]_vars

---------------------------------------------------------------------------
(* get_intersection on its own, for all small points *)

\* the points with integer coordinates in -1 .. MaxCoord
GridPoints == { IVec(x, y) : x \in -1 .. MaxCoord, y \in -1 .. MaxCoord }

InitIntersection ==
    /\ cursor = IVec(0, 0)
    /\ cursor_state = Unlocked
    /\ played = <<>>
    /\ prev_cursor = IVec(0, 0)
    /\ prev_state = Unlocked
    /\ last_delta = IVec(0, 0)
    /\ steps = 0
    /\ args \in GridPoints \X GridPoints \X GridPoints \X GridPoints
    /\ result = <<>>
    /\ spawned = triangle_segments

call_get_intersection ==
    /\ result = <<>>
    /\ result' = << get_intersection(args[1], args[2], args[3], args[4]) >>
    /\ UNCHANGED <<cursor, cursor_state, played, prev_cursor, prev_state,
                   last_delta, steps, args, spawned>>

NextIntersection == call_get_intersection

SpecIntersection == InitIntersection /\ [][NextIntersection]_vars

---------------------------------------------------------------------------
(* Vocabulary of the properties *)

\* the value of the side test of point p against segment seg
side(p, seg) == cross(VSub(p, seg.start), seg.between)

Segments == { triangle_segments[i] : i \in DOMAIN triangle_segments }

\* p is not strictly outside any segment
Inside(p) == \A seg \in Segments : RSign(side(p, seg)) <= 0

\* p is on the infinite line of seg
OnLine(p, seg) == side(p, seg) = Zero

\* the t for which start + t * between is the foot of p on the line of seg
param(p, seg) ==
    RDiv(dot(VSub(p, seg.start), seg.between), dot(seg.between, seg.between))

\* p is a point start + t * between with 0 <= t <= 1
OnSegment(p, seg) ==
    /\ OnLine(p, seg)
    /\ RSign(param(p, seg)) >= 0
    /\ ~RLt(One, param(p, seg))

\* a delta has been processed; prev_cursor, prev_state and last_delta
\* describe it
Stepped == steps > 0

\* cursor + delta of the last step, with the sign of y flipped
prev_delta == Vec2(last_delta.x, RNeg(last_delta.y))

prev_future == VAdd(prev_cursor, prev_delta)

\* the segment a Sliding state refers to
SegmentOf(state) == CHOOSE seg \in Segments : seg.id = state.id

---------------------------------------------------------------------------
(* C1 *)

\* C1: the committed cursor position is never strictly outside a segment:
\* cross(cursor - start, between) <= 0 for every segment, in every reachable
\* state
C1_Containment == Inside(cursor)

---------------------------------------------------------------------------
(* C2 *)

\* C2: in every reachable Sliding(id) state the cursor is on the infinite
\* line of segment id: cross(cursor - start, between) = 0
C2_SlidingOnLine ==
    cursor_state.kind = "Sliding" =>
        /\ \E seg \in Segments : seg.id = cursor_state.id
        /\ OnLine(cursor, SegmentOf(cursor_state))

\* a sliding step along a slanted segment that moved the cursor to a point
\* that is not an endpoint
C2_Witness ==
    /\ Stepped
    /\ prev_state.kind = "Sliding"
    /\ cursor_state.kind = "Sliding"
    /\ cursor_state.id # 1
    /\ cursor # prev_cursor
    /\ cursor # SegmentOf(cursor_state).start
    /\ cursor # SegmentOf(cursor_state).end

---------------------------------------------------------------------------
(* C3 *)

\* the segments past which p lies, and the first of them in iteration order
PastIds(p) == { seg.id : seg \in { sg \in Segments : RSign(side(p, sg)) > 0 } }

FirstPast(p) ==
    CHOOSE seg \in Segments :
        seg.id \in PastIds(p) /\ \A j \in PastIds(p) : seg.id <= j

\* the motion line of the last step does not meet the line of seg: the
\* denominator of the intersection formula is zero
NoIntersection(seg) == cross(prev_delta, seg.between) = Zero

\* C3: in Free, when the first segment whose side test on cursor + delta is
\* > 0 has no intersection with the motion line, the delta is dropped: the
\* position and the mode are unchanged and no event is emitted
C3_DeltaDropped ==
    ( /\ Stepped
      /\ prev_state.kind = "Unlocked"
      /\ PastIds(prev_future) # {}
      /\ NoIntersection(FirstPast(prev_future)) )
    => /\ cursor = prev_cursor
       /\ cursor_state = Unlocked
       /\ played = <<>>

---------------------------------------------------------------------------
(* C4 *)

\* the point where the motion from c to f meets the line of seg, for a motion
\* that changes side
MeetingPoint(c, f, seg) ==
    LET sc == side(c, seg)
        sf == side(f, seg)
    IN  VAdd(c, VScale(VSub(f, c), RDiv(sc, RSub(sc, sf))))

\* the straight motion from c to f crosses the finite segment seg from the
\* inside to the outside, strictly between its endpoints
CrossesSegment(c, f, seg) ==
    /\ RSign(side(c, seg)) <= 0
    /\ RSign(side(f, seg)) > 0
    /\ LET t == param(MeetingPoint(c, f, seg), seg)
       IN  RSign(t) > 0 /\ RLt(t, One)

\* C4: in Free with the cursor inside all boundaries, a delta whose straight
\* motion crosses the finite segment s leaves the mode Sliding(s.id) and the
\* cursor on the line of s
C4_FreeToSliding ==
    ( /\ Stepped
      /\ prev_state.kind = "Unlocked"
      /\ Inside(prev_cursor) )
    => \A seg \in Segments :
           CrossesSegment(prev_cursor, prev_future, seg) =>
               /\ cursor_state = Sliding(seg.id)
               /\ OnLine(cursor, seg)

---------------------------------------------------------------------------
(* C5 *)

\* the last step started in Sliding(id), id a segment, and did not release
SlidStep ==
    /\ Stepped
    /\ prev_state.kind = "Sliding"
    /\ \E seg \in Segments : seg.id = prev_state.id
    /\ RSign(side(prev_future, SegmentOf(prev_state))) >= 0

\* the projected candidate position of the last step
Candidate == slide_pos(prev_cursor, prev_delta, SegmentOf(prev_state))

\* C5: while sliding without release, a candidate beyond end is committed as
\* end and a candidate beyond start is committed as start, whatever the
\* overshoot
C5_ClampsToEndpoints ==
    SlidStep =>
        LET seg == SegmentOf(prev_state)
            t == param(Candidate, seg)
        IN  /\ RLt(One, t) => cursor = seg.end
            /\ RLt(t, Zero) => cursor = seg.start

---------------------------------------------------------------------------
(* C6 *)

\* C6: while Sliding(id), a delta with cross((cursor + delta) - start,
\* between) < 0 sets the mode to Free, commits exactly cursor + delta and
\* emits no event; any other delta leaves the mode Sliding(id)
C6_SlidingToFree ==
    ( /\ Stepped
      /\ prev_state.kind = "Sliding" )
    => IF RSign(side(prev_future, SegmentOf(prev_state))) < 0
       THEN /\ cursor_state = Unlocked
            /\ cursor = prev_future
            /\ played = <<>>
       ELSE cursor_state = prev_state

\* a release that moved the cursor off the line
C6_Witness ==
    /\ Stepped
    /\ prev_state.kind = "Sliding"
    /\ cursor_state = Unlocked
    /\ cursor # prev_cursor
    /\ ~OnLine(cursor, SegmentOf(prev_state))

---------------------------------------------------------------------------
(* C7 *)

\* C7: a delta of (0, 0) leaves the position and the mode unchanged and emits
\* no event
C7_ZeroMotion ==
    ( /\ Stepped
      /\ last_delta = IVec(0, 0) )
    => /\ cursor = prev_cursor
       /\ cursor_state = prev_state
       /\ played = <<>>

---------------------------------------------------------------------------
(* C8 *)

\* C8: a step emits exactly one event, carrying id, when it goes from Free to
\* Sliding(id), and no event otherwise
C8_EventOnCrossing ==
    Stepped =>
        IF prev_state.kind = "Unlocked" /\ cursor_state.kind = "Sliding"
        THEN played = <<cursor_state.id>>
        ELSE played = <<>>

\* a step from Free to Sliding
C8_Witness ==
    /\ Stepped
    /\ prev_state.kind = "Unlocked"
    /\ cursor_state.kind = "Sliding"
    /\ Len(played) = 1

---------------------------------------------------------------------------
(* C9 *)

\* C9: the initial mode is Free and every reachable mode is Free or
\* Sliding(id) with id 0, 1 or 2, the id of a constructed segment
C9_ValidMode ==
    /\ steps = 0 => cursor_state = Unlocked
    /\ \/ cursor_state = Unlocked
       \/ /\ cursor_state.kind = "Sliding"
          /\ cursor_state.id \in {0, 1, 2}
          /\ cursor_state = Sliding(cursor_state.id)
          /\ \E seg \in Segments : seg.id = cursor_state.id

\* the cursor slides on the segment with the largest id
C9_Witness ==
    /\ cursor_state.kind = "Sliding"
    /\ cursor_state.id = 2

---------------------------------------------------------------------------
(* C10 *)

\* C10: in every reachable Sliding(id) state the cursor is a point
\* start + t * between of segment id with 0 <= t <= 1
C10_SlidingOnSegment ==
    cursor_state.kind = "Sliding" => OnSegment(cursor, SegmentOf(cursor_state))

---------------------------------------------------------------------------
(* C11 *)

\* get_intersection has been called on args and has returned
Returned == result # <<>>

\* the integer (p1.x - p2.x)(p3.y - p4.y) - (p1.y - p2.y)(p3.x - p4.x) of the
\* call's points
Denom ==
    (args[1].x[1] - args[2].x[1]) * (args[3].y[1] - args[4].y[1])
        - (args[1].y[1] - args[2].y[1]) * (args[3].x[1] - args[4].x[1])

\* q is on the infinite line through a and b
Collinear(q, a, b) == cross(VSub(q, a), VSub(b, a)) = Zero

\* C11: for points with denom # 0, get_intersection returns Some(q) with q on
\* the line through p1, p2 and on the line through p3, p4; the lines
\* (0,0)-(10,0) and (5,-5)-(5,5), here scaled by 1/5, give (5,0), here (1,0)
C11_IntersectionCorrect ==
    ( /\ Returned
      /\ Denom # 0 )
    => /\ result[1].some
       /\ Collinear(result[1].v, args[1], args[2])
       /\ Collinear(result[1].v, args[3], args[4])
       /\ args = <<IVec(0, 0), IVec(2, 0), IVec(1, -1), IVec(1, 1)>>
              => result[1].v = IVec(1, 0)

\* the call on the lines of the example has returned
C11_Witness ==
    /\ Returned
    /\ args = <<IVec(0, 0), IVec(2, 0), IVec(1, -1), IVec(1, 1)>>
    /\ result[1].some

---------------------------------------------------------------------------
(* C12 *)

\* C12: get_intersection returns None exactly when denom = 0, without
\* dividing, and Some point for every other input
C12_ParallelIsNone ==
    Returned =>
        /\ Denom = 0 <=> result[1] = None
        /\ Denom # 0 <=> result[1].some
        /\ result[1].some => result[1].v.x[2] > 0 /\ result[1].v.y[2] > 0

\* the call on two distinct parallel lines, (0,0)-(2,0) and (0,1)-(2,1), has
\* returned
C12_Witness ==
    /\ Returned
    /\ args = <<IVec(0, 0), IVec(2, 0), IVec(0, 1), IVec(2, 1)>>
    /\ result[1] = None

---------------------------------------------------------------------------
(* C13 *)

\* the six points are pairwise distinct
DistinctPoints == \A j, k \in DOMAIN points : j # k => points[j] # points[k]

\* C13: the construction gives exactly three segments with ids 0, 1, 2 in
\* order; segment i has start = p[2i], end = p[(2i + 2) mod 6] and
\* between = end - start, so the segments form a closed chain over the
\* even-indexed points, and start # end when the six points are distinct
\* (points is indexed from 1 here)
C13_Construction ==
    /\ Len(points) = 6
    /\ DOMAIN spawned = 1..3
    /\ \A i \in 0..2 :
           LET seg == spawned[i + 1]
           IN  /\ seg.id = i
               /\ seg.start = points[2 * i + 1]
               /\ seg.end = points[((2 * i + 2) % 6) + 1]
               /\ seg.between = VSub(seg.end, seg.start)
               /\ seg.end = spawned[((i + 1) % 3) + 1].start
               /\ DistinctPoints => seg.start # seg.end

\* the state after construction, the six points being distinct
C13_Witness ==
    /\ steps = 0
    /\ args = <<>>
    /\ DistinctPoints
    /\ Len(spawned) = 3

---------------------------------------------------------------------------
(* C14 *)

\* the corners of the shape: the inner points
Corners == << points[1], points[3], points[5] >>

\* the points (a A + b B + c C) / n with positive integer weights a + b + c = n
\* for the corners A, B, C: points strictly inside the shape
InsidePoints ==
    { VScale(VAdd(VAdd(VScale(Corners[1], <<w[1], 1>>),
                       VScale(Corners[2], <<w[2], 1>>)),
                  VScale(Corners[3], <<w[3] - w[1] - w[2], 1>>)),
             Rat(1, w[3]))
        : w \in { v \in (1..MaxSubdivision) \X (1..MaxSubdivision) \X (3..MaxSubdivision)
                    : v[1] + v[2] < v[3] } }

\* the multiples k of the normal, k = 1/2, 1, 3/2, ..
NormalScales == { Rat(j, 2) : j \in 1..MaxNormalSteps }

---------------------------------------------------------------------------
(* C15 *)

\* the last step started in Free with cursor + delta past some segment
PastStep ==
    /\ Stepped
    /\ prev_state.kind = "Unlocked"
    /\ PastIds(prev_future) # {}

\* C15: in Free the only segment acted on is the lowest-id segment whose side
\* test on cursor + delta is > 0: with an intersection the step ends in
\* Sliding on that segment with one event for it, without one the step stays
\* Free at cursor + delta with no event, whatever the side tests of the
\* segments with higher ids; a step plays at most one event
C15_FirstPastWins ==
    /\ Stepped => Len(played) <= 1
    /\ PastStep =>
           LET seg == FirstPast(prev_future)
           IN  IF NoIntersection(seg)
               THEN /\ cursor_state = Unlocked
                    /\ played = <<>>
                    /\ cursor = prev_future
               ELSE /\ cursor_state = Sliding(seg.id)
                    /\ played = <<seg.id>>
                    /\ OnLine(cursor, seg)

\* a step from Free whose cursor + delta is past a segment with a higher id
\* too and whose first past segment has no intersection
C15_Witness ==
    /\ PastStep
    /\ Cardinality(PastIds(prev_future)) >= 2
    /\ NoIntersection(FirstPast(prev_future))
    /\ prev_delta # IVec(0, 0)

---------------------------------------------------------------------------
(* C16 *)

\* C16: in Free, for a raw delta (dx, dy) with no side test > 0 at
\* cursor + (dx, -dy), the committed position is cursor + (dx, -dy), the
\* mode stays Free and no event is emitted
C16_FreeMotion ==
    ( /\ Stepped
      /\ prev_state.kind = "Unlocked"
      /\ LET f == Vec2(RAdd(prev_cursor.x, last_delta.x), RSub(prev_cursor.y, last_delta.y))
         IN  \A seg \in Segments : RSign(cross(VSub(f, seg.start), seg.between)) <= 0 )
    => /\ cursor = Vec2(RAdd(prev_cursor.x, last_delta.x), RSub(prev_cursor.y, last_delta.y))
       /\ cursor_state = Unlocked
       /\ played = <<>>

\* a free step with a vertical component that stayed inside
C16_Witness ==
    /\ Stepped
    /\ prev_state.kind = "Unlocked"
    /\ cursor_state = Unlocked
    /\ last_delta.y # Zero
    /\ Inside(cursor)
    /\ cursor.y = RSub(prev_cursor.y, last_delta.y)

---------------------------------------------------------------------------
(* C17 *)

\* p is a point c + s * d with 0 <= s <= 1
OnMotion(p, c, d) ==
    /\ cross(VSub(p, c), d) = Zero
    /\ RSign(dot(VSub(p, c), d)) >= 0
    /\ ~RLt(dot(d, d), dot(VSub(p, c), d))

\* C17: on every Free->Sliding transition the committed position lies on the
\* motion segment from the old cursor position to cursor + delta
C17_CrossingOnMotion ==
    ( /\ Stepped
      /\ prev_state.kind = "Unlocked"
      /\ cursor_state.kind = "Sliding" )
    => OnMotion(cursor, prev_cursor, prev_delta)

---------------------------------------------------------------------------
(* C18 *)

\* C18: a step from Sliding(i) ends in Sliding(i) or in Free, never in
\* Sliding(j) with j # i
C18_SameSegment ==
    ( /\ Stepped
      /\ prev_state.kind = "Sliding" )
    => \/ cursor_state = prev_state
       \/ cursor_state = Unlocked

\* a sliding step that clamped the cursor to the end of its segment, a corner
\* shared with the next segment, and stayed on its segment
C18_Witness ==
    /\ Stepped
    /\ prev_state.kind = "Sliding"
    /\ cursor_state = prev_state
    /\ cursor # prev_cursor
    /\ cursor = SegmentOf(prev_state).end
    /\ \E seg \in Segments : seg.id # prev_state.id /\ seg.start = cursor

---------------------------------------------------------------------------
(* C19 *)

\* C19: after every step that starts in Sliding(id) with the cursor on the
\* line of segment id and ends in Sliding(id), the committed position is
\* within the finite segment
C19_SlideWithinSegment ==
    ( /\ Stepped
      /\ prev_state.kind = "Sliding"
      /\ cursor_state = prev_state
      /\ OnLine(prev_cursor, SegmentOf(prev_state)) )
    => OnSegment(cursor, SegmentOf(prev_state))

\* a sliding step that started beyond the start of its segment and was
\* clamped to start
C19_Witness ==
    /\ Stepped
    /\ prev_state.kind = "Sliding"
    /\ cursor_state = prev_state
    /\ OnLine(prev_cursor, SegmentOf(prev_state))
    /\ RSign(param(prev_cursor, SegmentOf(prev_state))) < 0
    /\ cursor = SegmentOf(prev_state).start

---------------------------------------------------------------------------
(* C20 *)

=============================================================================
